---- MODULE Spec2Model ----
(***************************************************************************)
(* A model of crawling.py: the board pagination loop of main, the retry    *)
(* loops of fetch_pins_page and stream_download, pick_best_image,          *)
(* sanitize_filename and the Downloader worker pool.                       *)
(*                                                                         *)
(* Strings are sequences of characters; a character is a one-element       *)
(* token ("a", "_", "TAB", ...).                                           *)
(***************************************************************************)
EXTENDS Integers, Sequences, FiniteSets, TLC

(* ------------------------------ bounds ------------------------------- *)

\* longest list of pins handed to Downloader.run
MaxPins == 4
\* largest concurrency tried
MaxConc == 2
\* most pages the source serves before it ends the collection
MaxPages == 2
\* most pins the board holds
MaxBoard == 2
\* largest CONCURRENCY main is run with
MainConc == 1
\* a scripted server answers at most MaxRetries + 1 + ScriptSlack requests
ScriptSlack == 1
\* most entries of a pin.images map
MaxEntries == 3
\* longest free part of a name given to sanitize_filename
MaxTail == 3
\* most pins of a run with one worker
MaxSeq == 3
\* most pins and workers, taken together, of a run with several workers
PoolSize == 4

(* -------------------------- program constants ------------------------ *)

\* retries < 5 in both retry loops
MaxRetries == 5
\* backoff_sleep: min(60, 2 ** retries)
BackoffCap == 60
\* sanitize_filename(name, max_len=120)
DefaultMaxLen == 120

TransientStatus == {429, 500, 502, 503, 504}

(* ------------------------------ strings ------------------------------ *)

\* the characters of `bad`, as the for loop of sanitize_filename visits them:
\* the literal holds \x00, '-' and \x1F, not the range between them
BadChars == {"<", ">", ":", "QUOTE", "/", "BACKSLASH", "|", "?", "*", "NUL", "-", "US"}

\* the characters str.split() with no argument treats as separators
Whitespace == {" ", "TAB", "LF", "VT", "FF", "CR", "FS", "GS", "RS", "US"}

Untitled == <<"u", "n", "t", "i", "t", "l", "e", "d">>

DotJpg == <<".", "j", "p", "g">>

\* name.replace(ch, "_") for every ch of bad
ReplaceBad(name) == [i \in 1..Len(name) |-> IF name[i] \in BadChars THEN "_" ELSE name[i]]

\* the length of the run that name starts with: of whitespace when ws, of
\* other characters when not
RunLen(name, ws) ==
    LET stops == {i \in 1..Len(name) : (name[i] \in Whitespace) # ws}
    IN  IF stops = {} THEN Len(name)
        ELSE (CHOOSE i \in stops : \A j \in stops : i <= j) - 1

RECURSIVE SplitJoin(_, _, _)
\* "_".join(name.split()), one run of characters at a time: acc is the text
\* built so far, pending tells that a whitespace run was passed after some word
SplitJoin(name, acc, pending) ==
    IF name = <<>> THEN acc
    ELSE LET ws  == Head(name) \in Whitespace
             n   == RunLen(name, ws)
             run == SubSeq(name, 1, n)
             rest == SubSeq(name, n + 1, Len(name))
         IN  IF ws
             THEN SplitJoin(rest, acc, acc # <<>>)
             ELSE SplitJoin(rest, (IF pending THEN Append(acc, "_") ELSE acc) \o run, FALSE)

\* name[:max_len]
Truncate(name, max_len) == SubSeq(name, 1, IF Len(name) < max_len THEN Len(name) ELSE max_len)

RECURSIVE LStrip(_)
LStrip(name) == IF name # <<>> /\ Head(name) = "_" THEN LStrip(Tail(name)) ELSE name

RECURSIVE RStrip(_)
RStrip(name) ==
    IF name # <<>> /\ name[Len(name)] = "_" THEN RStrip(SubSeq(name, 1, Len(name) - 1)) ELSE name

\* name.strip("_")
Strip(name) == RStrip(LStrip(name))

sanitize_filename(name, max_len) ==
    IF name = <<>> THEN Untitled
    ELSE Strip(Truncate(SplitJoin(ReplaceBad(name), <<>>, FALSE), max_len))

\* the index of the last "." of name, 0 when there is none
LastDot(name) ==
    LET dots == {i \in 1..Len(name) : name[i] = "."}
    IN  IF dots = {} THEN 0 ELSE CHOOSE i \in dots : \A j \in dots : j <= i

\* the last component of a URL path
RECURSIVE LastComponent(_)
LastComponent(path) ==
    LET slashes == {i \in 1..Len(path) : path[i] = "/"}
    IN  IF slashes = {} THEN path
        ELSE LET k == CHOOSE i \in slashes : \A j \in slashes : j <= i
             IN  IF k = Len(path) THEN LastComponent(SubSeq(path, 1, k - 1))
                 ELSE SubSeq(path, k + 1, Len(path))

\* Path(urlparse(url).path).suffix or ".jpg"
Ext(url) ==
    LET name == LastComponent(url.path)
        i    == LastDot(name)
    IN  IF 1 < i /\ i < Len(name) THEN SubSeq(name, i, Len(name)) ELSE DotJpg

RECURSIVE Digits(_)
\* str(idx) for idx >= 0
Digits(n) ==
    LET d == <<"0", "1", "2", "3", "4", "5", "6", "7", "8", "9">>[(n % 10) + 1]
    IN  IF n < 10 THEN <<d>> ELSE Append(Digits(n \div 10), d)

(* ------------------------------ pins --------------------------------- *)
(* An image entry is [isdict, url, width]: url is [host, path], the empty  *)
(* string (or a missing key, which img.get("url") cannot tell apart) is    *)
(* [host |-> <<>>, path |-> <<>>]; width is {} when absent or None, else   *)
(* {n}.  pin.media is [kind, images] and images is [kind, map]; pin.images *)
(* is [kind, entries], the values of the dict in insertion order.          *)

NoUrl == [host |-> <<>>, path |-> <<>>]

\* the truth value of a url string
UrlTruthy(url) == url.host # <<>> \/ url.path # <<>>

\* x.get("width") or 0
WidthOrZero(img) == IF img.width = {} THEN 0 ELSE CHOOSE n \in img.width : TRUE

\* isinstance(img, dict) and img.get("url")
Usable(img) == img.isdict /\ UrlTruthy(img.url)

\* mutant: xlarge is looked up before orig
order_XlargeFirst == <<"xlarge", "orig", "large", "medium", "small">>

order == <<"orig", "xlarge", "large", "medium", "small">>

RECURSIVE FirstTier(_, _)
\* the for loop over order: the index of the first usable tier from k on, 0 when none
FirstTier(map, k) ==
    IF k > Len(order) THEN 0
    ELSE IF order[k] \in DOMAIN map /\ Usable(map[order[k]]) THEN k
         ELSE FirstTier(map, k + 1)

RECURSIVE InsertDesc(_, _)
\* x put into the descending sequence s after every element whose key is >= its own
InsertDesc(s, x) ==
    IF s = <<>> THEN <<x>>
    ELSE IF WidthOrZero(Head(s)) >= WidthOrZero(x) THEN <<Head(s)>> \o InsertDesc(Tail(s), x)
         ELSE <<x>> \o s

RECURSIVE SortedDesc(_, _)
\* sorted(entries, key=width or 0, reverse=True): stable, equal keys keep their order
SortedDesc(entries, acc) ==
    IF entries = <<>> THEN acc ELSE SortedDesc(Tail(entries), InsertDesc(acc, Head(entries)))

\* [v for v in fallback.values() if isinstance(v, dict) and v.get("url")]
UsableEntries(entries) == SelectSeq(entries, Usable)

NoImg == [isdict |-> FALSE, url |-> NoUrl, width |-> {}]

\* the result is [kind, img]: "img" with the entry returned, "none" for None,
\* "raise" when images.get is called on a value that is no dict
pick_best_image(pin) ==
    LET media  == pin.media
        images == IF media.kind = "dict" /\ media.images.kind # "absent"
                  THEN media.images
                  ELSE [kind |-> "dict", map |-> <<>>]
        k      == FirstTier(images.map, 1)
        sizes  == SortedDesc(UsableEntries(pin.images.entries), <<>>)
    IN  IF images.kind # "dict" THEN [kind |-> "raise", img |-> NoImg]
        ELSE IF k # 0 THEN [kind |-> "img", img |-> images.map[order[k]]]
        ELSE IF pin.images.kind = "dict" /\ pin.images.entries # <<>> /\ sizes # <<>>
             THEN [kind |-> "img", img |-> sizes[1]]
             ELSE [kind |-> "none", img |-> NoImg]

(* --------------------------- retry loops ----------------------------- *)
(* A script is the sequence of answers the server gives to the successive  *)
(* requests of one call: [kind |-> "status", code |-> n] or, for a request *)
(* that gets no answer within the timeout, [kind |-> "timeout", code |-> 0].*)

Min(a, b) == IF a < b THEN a ELSE b

\* backoff_sleep: the seconds slept
backoff_sleep(retries) == Min(BackoffCap, 2 ^ retries)

\* r.status_code in (429, 500, 502, 503, 504) and retries < 5
RetryFetch(code, retries) == code \in TransientStatus /\ retries < MaxRetries

RECURSIVE FetchLoop(_, _, _, _)
\* the while loop of fetch_pins_page; the result is [outcome, status, retries,
\* sleeps, requests], outcome "return" (r.json()), "raise" (RuntimeError),
\* "timeout" (the exception of requests.get) or "blocked" (script exhausted)
FetchLoop(script, retries, sleeps, requests) ==
    IF script = <<>>
    THEN [outcome |-> "blocked", status |-> 0, retries |-> retries,
          sleeps |-> sleeps, requests |-> requests]
    ELSE LET r == Head(script)
         IN  IF r.kind = "timeout"
             THEN [outcome |-> "timeout", status |-> 0, retries |-> retries,
                   sleeps |-> sleeps, requests |-> requests + 1]
             ELSE IF r.code = 200
             THEN [outcome |-> "return", status |-> 200, retries |-> retries,
                   sleeps |-> sleeps, requests |-> requests + 1]
             ELSE IF RetryFetch(r.code, retries)
             THEN FetchLoop(Tail(script), retries + 1,
                            Append(sleeps, backoff_sleep(retries + 1)), requests + 1)
             ELSE [outcome |-> "raise", status |-> r.code, retries |-> retries,
                   sleeps |-> sleeps, requests |-> requests + 1]

fetch_pins_page(script) == FetchLoop(script, 0, <<>>, 0)

\* mutant: the cap is tested with <= and allows a sixth retry
RetryDownload_OneMore(code, retries) == code \in TransientStatus /\ retries <= MaxRetries

\* r.status_code in (429, 500, 502, 503, 504) and retries < 5
RetryDownload(code, retries) == code \in TransientStatus /\ retries < MaxRetries

RECURSIVE DownloadLoop(_, _, _, _)
\* the while loop of stream_download up to the point where the body is written;
\* outcome "return" stands for a 200 whose body is then streamed to the file
DownloadLoop(script, retries, sleeps, requests) ==
    IF script = <<>>
    THEN [outcome |-> "blocked", status |-> 0, retries |-> retries,
          sleeps |-> sleeps, requests |-> requests]
    ELSE LET r == Head(script)
         IN  IF r.kind = "timeout"
             THEN [outcome |-> "timeout", status |-> 0, retries |-> retries,
                   sleeps |-> sleeps, requests |-> requests + 1]
             ELSE IF r.code = 200
             THEN [outcome |-> "return", status |-> 200, retries |-> retries,
                   sleeps |-> sleeps, requests |-> requests + 1]
             ELSE IF RetryDownload(r.code, retries)
             THEN DownloadLoop(Tail(script), retries + 1,
                               Append(sleeps, backoff_sleep(retries + 1)), requests + 1)
             ELSE [outcome |-> "raise", status |-> r.code, retries |-> retries,
                   sleeps |-> sleeps, requests |-> requests + 1]

stream_download(script) == DownloadLoop(script, 0, <<>>, 0)

(* ------------------------- sample inputs ----------------------------- *)

Status(code) == [kind |-> "status", code |-> code]

NetTimeout == [kind |-> "timeout", code |-> 0]

\* what one request can be answered with
Answers == {Status(200), Status(429), Status(503), Status(404), NetTimeout}

\* every script long enough for a call that retries MaxRetries times, and more
Scripts == [1..(MaxRetries + 1 + ScriptSlack) -> Answers]

\* the scripts played to the calls made by main and by the workers
SixTransient == <<Status(429), Status(503), Status(502), Status(500), Status(504), Status(429)>>

SampleScripts ==
    { <<Status(200)>>,
      <<Status(404)>>,
      <<Status(429), Status(503), Status(502), Status(200)>>,
      SixTransient,
      <<Status(503), NetTimeout>> }

Img(path, width) == [isdict |-> TRUE, url |-> [host |-> <<"h">>, path |-> path], width |-> width]

NoMedia == [kind |-> "absent", images |-> [kind |-> "absent", map |-> <<>>]]

NoImages == [kind |-> "absent", entries |-> <<>>]

Tiers(map) == [kind |-> "dict", images |-> [kind |-> "dict", map |-> map]]

\* item A: an orig asset at /a.p
PinA == [id |-> {<<"a">>}, title |-> <<>>, description |-> <<>>,
         media |-> Tiers([t \in {"orig"} |-> Img(<<"/", "a", ".", "p">>, {})]),
         images |-> NoImages]

\* item B: only the fallback map, widths 100 and 800
PinB == [id |-> {<<"b">>}, title |-> <<"x", " ", "y">>, description |-> <<>>,
         media |-> NoMedia,
         images |-> [kind |-> "dict",
                     entries |-> <<Img(<<"/", "s">>, {100}), Img(<<"/", "l">>, {800})>>]]

\* item C: no asset fields at all
PinC == [id |-> {<<"c">>}, title |-> <<>>, description |-> <<>>,
         media |-> NoMedia, images |-> NoImages]

\* an item whose media.images is null
PinN == [id |-> {<<"n">>}, title |-> <<>>, description |-> <<>>,
         media |-> [kind |-> "dict", images |-> [kind |-> "notdict", map |-> <<>>]],
         images |-> NoImages]

\* the pins handed to Downloader.run
RunPins == {PinA, PinC}

\* the pins the source serves
PagePins == {PinA, PinC}

RECURSIVE SeqsUpTo(_, _)
\* the sequences over S of length at most n
SeqsUpTo(S, n) ==
    IF n = 0 THEN {<<>>}
    ELSE LET shorter == SeqsUpTo(S, n - 1)
         IN  shorter \cup {Append(q, x) : q \in {r \in shorter : Len(r) = n - 1}, x \in S}

(* ------------------------------ state -------------------------------- *)

VARIABLES
    mpc,          \* where the main thread is
    pins,         \* main: pins / Downloader.run: pins
    bookmark,     \* main: bookmark ("NONE" is None)
    total_pages,  \* main: total_pages
    served,       \* the pages the source has returned, in order
    sent,         \* the bookmark parameter of each page request ("ABSENT": none)
    concurrency,  \* Downloader.concurrency
    total,        \* Downloader.total
    bar,          \* the tqdm bar: [open, n]
    q,            \* Downloader.q: job indices into pins, 0 is the None sentinel
    unfinished,   \* q.unfinished_tasks
    threads,      \* len(Downloader.threads)
    mi,           \* the loop index of the main thread
    wpc,          \* where each worker is
    wjob,         \* the queue item each worker holds
    wfile,        \* each worker's base, ext, filepath, idx
    fs,           \* the files of out_dir: path -> [complete, old, writers]; old tells
                  \* that the file was there before the run, writers are the
                  \* jobs that opened it for writing
    outcome,      \* the terminal outcome of every real job
    got,          \* how many times q.get() has returned each item (item 0: the
                  \* sentinels, which are all the same None)
    probe         \* the last call of a function applied on its own

vars == <<mpc, pins, bookmark, total_pages, served, sent, concurrency, total, bar, q,
          unfinished, threads, mi, wpc, wjob, wfile, fs, outcome, got, probe>>

mainVars == <<pins, bookmark, total_pages, served, sent>>

poolVars == <<concurrency, total, bar, q, unfinished, threads, mi, wpc, wjob, wfile, fs, outcome,
              got>>

NoFile == [url |-> NoUrl, base |-> <<>>, ext |-> <<>>, path |-> <<>>, idx |-> 0]

NoProbe == [fn |-> "none"]

Workers == 1..concurrency

Jobs == 1..Len(pins)

(* --------------------------- Downloader ------------------------------ *)

\* a put that leaves the item on the queue twice
QPut_Twice(item) == q' = q \o <<item, item>> /\ unfinished' = unfinished + 2

\* Queue.put: the item is appended and unfinished_tasks grows by one
QPut(item) == q' = Append(q, item) /\ unfinished' = unfinished + 1

\* Queue.task_done raises ValueError when unfinished_tasks would drop below zero
TaskDoneRaises == unfinished - 1 < 0

\* Downloader._tick: bar.update(1) when the bar is truthy (a tqdm bar is truthy
\* when its total is positive)
Tick == bar' = IF total > 0 THEN [bar EXCEPT !.n = @ + 1] ELSE bar

\* pin.get("title") or pin.get("description") or ""
TitleOf(pin) == IF pin.title # <<>> THEN pin.title ELSE pin.description

\* pin.get("id", "")
IdOf(pin) == IF pin.id = {} THEN <<>> ELSE CHOOSE x \in pin.id : TRUE

\* base = sanitize_filename(f'{id}_{title}'), or str(pin.get("id", "pin")) when empty
BaseOf(pin) ==
    LET base == sanitize_filename(IdOf(pin) \o <<"_">> \o TitleOf(pin), DefaultMaxLen)
    IN  IF base # <<>> THEN base
        ELSE IF pin.id = {} THEN <<"p", "i", "n">> ELSE IdOf(pin)

\* a numbering one ahead of the loop index
Numbered_Skip(base, idx, ext) == base \o <<"_">> \o Digits(idx + 1) \o ext

\* f"{base}_{idx}{ext}"
Numbered(base, idx, ext) == base \o <<"_">> \o Digits(idx) \o ext

\* not img or not img.get("url"), for the result of pick_best_image
Skips(r) == r.kind = "none" \/ ~UrlTruthy(r.img.url)

\* worker: job = self.q.get(), then everything up to the first call that
\* touches shared state: the sentinel test, pick_best_image, the skip test,
\* url, ext, title, base and the first filepath
WorkerGet(w) ==
    /\ wpc[w] = "get"
    /\ q # <<>>
    /\ q' = Tail(q)
    /\ wjob' = [wjob EXCEPT ![w] = Head(q)]
    /\ got' = [got EXCEPT ![Head(q)] = @ + 1]
    /\ IF Head(q) = 0
       THEN /\ wpc' = [wpc EXCEPT ![w] = "sentinel_done"]
            /\ UNCHANGED <<wfile, outcome>>
       ELSE LET pin == pins[Head(q)]
                r   == pick_best_image(pin)
            IN  IF r.kind = "raise"
                THEN /\ wpc' = [wpc EXCEPT ![w] = "finally_tick"]
                     /\ outcome' = [outcome EXCEPT ![Head(q)] = "failed"]
                     /\ UNCHANGED wfile
                ELSE IF Skips(r)
                THEN /\ wpc' = [wpc EXCEPT ![w] = "skip_tick"]
                     /\ outcome' = [outcome EXCEPT ![Head(q)] = "skip"]
                     /\ UNCHANGED wfile
                ELSE /\ wpc' = [wpc EXCEPT ![w] = "exists"]
                     /\ wfile' = [wfile EXCEPT ![w] =
                            [url |-> r.img.url, base |-> BaseOf(pin), ext |-> Ext(r.img.url),
                             path |-> BaseOf(pin) \o Ext(r.img.url), idx |-> 1]]
                     /\ UNCHANGED outcome
    /\ UNCHANGED <<mpc, mainVars, concurrency, total, bar, unfinished, threads, mi, fs, probe>>

\* worker: if job is None: self.q.task_done(); break
WorkerSentinelDone(w) ==
    /\ wpc[w] = "sentinel_done"
    /\ IF TaskDoneRaises
       THEN wpc' = [wpc EXCEPT ![w] = "crashed"] /\ UNCHANGED unfinished
       ELSE wpc' = [wpc EXCEPT ![w] = "stopped"] /\ unfinished' = unfinished - 1
    /\ UNCHANGED <<mpc, mainVars, concurrency, total, bar, q, threads, mi, wjob, wfile, fs,
                   outcome, got, probe>>

\* worker, skip branch: self._tick()
WorkerSkipTick(w) ==
    /\ wpc[w] = "skip_tick"
    /\ Tick
    /\ wpc' = [wpc EXCEPT ![w] = "skip_done"]
    /\ UNCHANGED <<mpc, mainVars, concurrency, total, q, unfinished, threads, mi, wjob, wfile,
                   fs, outcome, got, probe>>

\* worker, skip branch: self.q.task_done(); continue.  The continue leaves the
\* try block through its finally clause; a ValueError of task_done is caught by
\* except Exception and the finally clause runs as well
WorkerSkipDone(w) ==
    /\ wpc[w] = "skip_done"
    /\ unfinished' = IF TaskDoneRaises THEN unfinished ELSE unfinished - 1
    /\ wpc' = [wpc EXCEPT ![w] = "finally_tick"]
    /\ UNCHANGED <<mpc, mainVars, concurrency, total, bar, q, threads, mi, wjob, wfile, fs,
                   outcome, got, probe>>

\* worker: while filepath.exists(): filepath = ..._{idx}{ext}; idx += 1
WorkerExists(w) ==
    /\ wpc[w] = "exists"
    /\ IF wfile[w].path \in DOMAIN fs
       THEN /\ wfile' = [wfile EXCEPT ![w].path = Numbered(wfile[w].base, wfile[w].idx, wfile[w].ext),
                                      ![w].idx = @ + 1]
            /\ UNCHANGED wpc
       ELSE /\ wpc' = [wpc EXCEPT ![w] = "download"]
            /\ UNCHANGED wfile
    /\ UNCHANGED <<mpc, mainVars, concurrency, total, bar, q, unfinished, threads, mi, wjob, fs,
                   outcome, got, probe>>

\* open(filepath, "wb"): the file is created, or truncated when it exists;
\* src is the url whose body is written to it
OpenForWrite(path, job, url) ==
    [p \in DOMAIN fs \cup {path} |->
        IF p = path
        THEN [complete |-> FALSE,
              src      |-> url,
              old      |-> p \in DOMAIN fs /\ fs[p].old,
              writers  |-> (IF p \in DOMAIN fs THEN fs[p].writers ELSE {}) \cup {job}]
        ELSE fs[p]]

\* stream_download(url, filepath): the requests and the backoff sleeps, then
\* open(filepath, "wb") after a 200, or the exception that ends the call
WorkerDownload(w) ==
    /\ wpc[w] = "download"
    /\ \E script \in SampleScripts :
          LET r == stream_download(script)
          IN  IF r.outcome = "return"
              THEN /\ fs' = OpenForWrite(wfile[w].path, wjob[w], wfile[w].url)
                   /\ wpc' = [wpc EXCEPT ![w] = "write"]
                   /\ UNCHANGED outcome
              ELSE /\ wpc' = [wpc EXCEPT ![w] = "finally_tick"]
                   /\ outcome' = [outcome EXCEPT ![wjob[w]] = "failed"]
                   /\ UNCHANGED fs
    /\ UNCHANGED <<mpc, mainVars, concurrency, total, bar, q, unfinished, threads, mi, wjob,
                   wfile, got, probe>>

\* stream_download: every chunk is written, the file is closed, return
WorkerWriteDone(w) ==
    /\ wpc[w] = "write"
    /\ fs' = [fs EXCEPT ![wfile[w].path].complete = TRUE]
    /\ outcome' = [outcome EXCEPT ![wjob[w]] = "success"]
    /\ wpc' = [wpc EXCEPT ![w] = "finally_tick"]
    /\ UNCHANGED <<mpc, mainVars, concurrency, total, bar, q, unfinished, threads, mi, wjob,
                   wfile, got, probe>>

\* stream_download: f.write or iter_content raises; the file stays as it is
WorkerWriteFail(w) ==
    /\ wpc[w] = "write"
    /\ outcome' = [outcome EXCEPT ![wjob[w]] = "failed"]
    /\ wpc' = [wpc EXCEPT ![w] = "finally_tick"]
    /\ UNCHANGED <<mpc, mainVars, concurrency, total, bar, q, unfinished, threads, mi, wjob,
                   wfile, fs, got, probe>>

\* worker, finally: self._tick()
WorkerFinallyTick(w) ==
    /\ wpc[w] = "finally_tick"
    /\ Tick
    /\ wpc' = [wpc EXCEPT ![w] = "finally_done"]
    /\ UNCHANGED <<mpc, mainVars, concurrency, total, q, unfinished, threads, mi, wjob, wfile,
                   fs, outcome, got, probe>>

\* worker, finally: self.q.task_done(); a ValueError raised here leaves the
\* worker function and ends the thread
WorkerFinallyDone(w) ==
    /\ wpc[w] = "finally_done"
    /\ IF TaskDoneRaises
       THEN wpc' = [wpc EXCEPT ![w] = "crashed"] /\ UNCHANGED unfinished
       ELSE wpc' = [wpc EXCEPT ![w] = "get"] /\ unfinished' = unfinished - 1
    /\ UNCHANGED <<mpc, mainVars, concurrency, total, bar, q, threads, mi, wjob, wfile, fs,
                   outcome, got, probe>>

\* run: self.total = len(pins); ensure_dir; self.bar = tqdm(total=self.total)
RunStart ==
    /\ mpc = "run_start"
    /\ total' = Len(pins)
    /\ bar' = [open |-> TRUE, n |-> 0]
    /\ mpc' = "spawn"
    /\ mi' = 0
    /\ outcome' = [j \in Jobs |-> "none"]
    /\ got' = [i \in 0..Len(pins) |-> 0]
    /\ UNCHANGED <<mainVars, concurrency, q, unfinished, threads, wpc, wjob, wfile, fs, probe>>

\* where run goes once the workers are started and mi items are on the queue
AfterPut(n) ==
    IF n < Len(pins) THEN "put" ELSE IF n < Len(pins) + concurrency THEN "sentinels" ELSE "q_join"

\* run: for _ in range(self.concurrency): t.start(); self.threads.append(t)
RunSpawn ==
    /\ mpc = "spawn"
    /\ threads < concurrency
    /\ threads' = threads + 1
    /\ wpc' = [wpc EXCEPT ![threads + 1] = "get"]
    /\ mpc' = IF threads + 1 < concurrency THEN "spawn" ELSE AfterPut(0)
    /\ UNCHANGED <<mainVars, concurrency, total, bar, q, unfinished, mi, wjob, wfile, fs,
                   outcome, got, probe>>

\* run: for pin in pins: self.q.put({"pin": pin})
RunPut ==
    /\ mpc = "put"
    /\ QPut(mi + 1)
    /\ mi' = mi + 1
    /\ mpc' = AfterPut(mi + 1)
    /\ UNCHANGED <<mainVars, concurrency, total, bar, threads, wpc, wjob, wfile, fs, outcome,
                   got, probe>>

\* run: for _ in range(self.concurrency): self.q.put(None)
RunSentinel ==
    /\ mpc = "sentinels"
    /\ QPut(0)
    /\ mi' = mi + 1
    /\ mpc' = AfterPut(mi + 1)
    /\ UNCHANGED <<mainVars, concurrency, total, bar, threads, wpc, wjob, wfile, fs, outcome,
                   got, probe>>

\* run: self.q.join() returns once unfinished_tasks is zero
RunQueueJoin ==
    /\ mpc = "q_join"
    /\ unfinished = 0
    /\ mpc' = "t_join"
    /\ UNCHANGED <<mainVars, poolVars, probe>>

\* run: for t in self.threads: t.join(); self.bar.close(); then main prints and returns
RunThreadsJoin ==
    /\ mpc = "t_join"
    /\ \A w \in 1..threads : wpc[w] \in {"stopped", "crashed"}
    /\ bar' = [bar EXCEPT !.open = FALSE]
    /\ mpc' = "returned"
    /\ UNCHANGED <<mainVars, concurrency, total, q, unfinished, threads, mi, wpc, wjob, wfile,
                   fs, outcome, got, probe>>

Worker(w) ==
    \/ WorkerGet(w)
    \/ WorkerSentinelDone(w)
    \/ WorkerSkipTick(w)
    \/ WorkerSkipDone(w)
    \/ WorkerExists(w)
    \/ WorkerDownload(w)
    \/ WorkerWriteDone(w)
    \/ WorkerWriteFail(w)
    \/ WorkerFinallyTick(w)
    \/ WorkerFinallyDone(w)

NextRun ==
    \/ RunStart
    \/ RunSpawn
    \/ RunPut
    \/ RunSentinel
    \/ RunQueueJoin
    \/ RunThreadsJoin
    \/ \E w \in Workers : Worker(w)

\* Downloader(out_dir, concurrency) as __init__ leaves it
PoolInit ==
    /\ total = 0
    /\ bar = [open |-> FALSE, n |-> 0]
    /\ q = <<>>
    /\ unfinished = 0
    /\ threads = 0
    /\ mi = 0
    /\ wpc = [w \in Workers |-> "unstarted"]
    /\ wjob = [w \in Workers |-> 0]
    /\ wfile = [w \in Workers |-> NoFile]
    /\ got = <<>>

\* the files out_dir may hold before the run
OldFiles == {<<>>, [p \in {<<"a", ".", "p">>} |-> [complete |-> TRUE, src |-> NoUrl, old |-> TRUE, writers |-> {}]]}

\* Downloader.run(pins) called on a fresh Downloader, for every list of pins
InitRun ==
    /\ mpc = "run_start"
    /\ pins \in SeqsUpTo(RunPins, MaxPins)
    /\ concurrency \in 1..MaxConc
    /\ bookmark = "NONE"
    /\ total_pages = 0
    /\ served = <<>>
    /\ sent = <<>>
    /\ PoolInit
    /\ fs \in OldFiles
    /\ outcome = <<>>
    /\ probe = NoProbe

SpecRun == InitRun /\ [][NextRun]_vars

(* ------------------------------- main -------------------------------- *)

\* the truth value of a bookmark: None and "" are falsy
BookmarkTruthy(b) == b \notin {"NONE", ""}

\* fetch_pins_page: params["bookmark"] = bookmark only if bookmark
PageParam(b) == IF BookmarkTruthy(b) THEN b ELSE "ABSENT"

\* mutant: only the bookmark ends the loop
MorePages_TokenOnly(b, items) == BookmarkTruthy(b)

\* main: the loop goes on unless `not bookmark or not items`
MorePages(b, items) == ~(~BookmarkTruthy(b) \/ items = <<>>)

\* mutant: the failure is swallowed and main goes on with the pins it has
AfterFetchFailure_Swallowed == "run_start"

\* main: the RuntimeError (or timeout) of fetch_pins_page is not caught: main ends
AfterFetchFailure == "aborted"

\* main: `if not pins: print(...); return`, else Downloader(...).run(pins)
AfterPagination(allPins) == IF allPins = <<>> THEN "nothing" ELSE "run_start"

\* the continuation token the source hands out with its n-th page
Token(n) == <<"b1", "b2", "b3", "b4", "b5", "b6">>[n]

\* the bookmark field of the n-th page: absent (None), empty, or its token
Bookmarks(n) == {"NONE", "", Token(n)}

\* the pages the source can answer with once n pages were served and the
\* board has room for `room` more pins; its last page ends the collection
Pages(n, room) ==
    {pg \in [items : SeqsUpTo(PagePins, room), bookmark : Bookmarks(n + 1)] :
        n + 1 = MaxPages => ~BookmarkTruthy(pg.bookmark) \/ pg.items = <<>>}

\* main: one turn of the while loop: fetch_pins_page(BOARD_ID, bookmark,
\* PAGE_SIZE) with its retries, then items, pins.extend, bookmark, total_pages
\* and the loop test
MainFetch ==
    /\ mpc = "paginate"
    /\ sent' = Append(sent, PageParam(bookmark))
    /\ \E script \in SampleScripts :
          IF fetch_pins_page(script).outcome # "return"
          THEN /\ mpc' = AfterFetchFailure
               /\ UNCHANGED <<pins, bookmark, total_pages, served>>
          ELSE \E data \in Pages(total_pages, MaxBoard - Len(pins)) :
                  /\ pins' = pins \o data.items
                  /\ bookmark' = data.bookmark
                  /\ total_pages' = total_pages + 1
                  /\ served' = Append(served, data)
                  /\ mpc' = IF MorePages(data.bookmark, data.items)
                            THEN "paginate"
                            ELSE AfterPagination(pins \o data.items)
    /\ UNCHANGED <<poolVars, probe>>

NextMain == MainFetch \/ NextRun

\* main() from its first line, with CONCURRENCY read from the environment
InitMain ==
    /\ mpc = "paginate"
    /\ pins = <<>>
    /\ bookmark = "NONE"
    /\ total_pages = 0
    /\ served = <<>>
    /\ sent = <<>>
    /\ concurrency \in 1..MainConc
    /\ PoolInit
    /\ fs = <<>>
    /\ outcome = <<>>
    /\ probe = NoProbe

SpecMain == InitMain /\ [][NextMain]_vars

(* ------------------------------ claims ------------------------------- *)

\* the real jobs put on the queue so far
Enqueued == {j \in Jobs : j <= mi}

\* the real jobs still on the queue
Queued == {q[i] : i \in DOMAIN q} \ {0}

\* the real jobs some worker has dequeued
Dequeued == Enqueued \ Queued

\* the real jobs that reached a terminal outcome
Processed == {j \in DOMAIN outcome : outcome[j] # "none"}

\* C1: the progress counter never exceeds the number of real jobs dequeued, and
\* once run has returned it equals the number of pins.
C1_TickOncePerJob ==
    /\ bar.n <= Cardinality(Dequeued)
    /\ mpc = "returned" => bar.n = Len(pins)

\* C2: when run has returned every real job has been dequeued and has reached a
\* terminal outcome, so the processed jobs number len(pins).
C2_AllProcessedAtReturn ==
    mpc = "returned" =>
        /\ Dequeued = Jobs
        /\ Processed = Jobs
        /\ Cardinality(Processed) = Len(pins)

\* C3: run is never blocked for good: unless it has returned, some thread can
\* take a step (every download attempt ends, so a worker in a download can).
C3_RunNeverStuck == mpc = "returned" \/ ENABLED NextRun

\* C4: a worker whose job failed does not terminate on it, and when run has
\* returned every job has been processed.
C4_FailureIsolated ==
    /\ \A w \in Workers :
          ~(wpc[w] = "crashed" /\ wjob[w] # 0 /\ outcome[wjob[w]] = "failed")
    /\ mpc = "returned" => Processed = Jobs

\* C5: no two jobs of a run open the same destination path for writing, and no
\* job opens a path that held a file when its existence check ran (a file from
\* before the run, or one another job created).
C5_UniqueDestinations ==
    \A p \in DOMAIN fs :
        /\ Cardinality(fs[p].writers) <= 1
        /\ fs[p].old => fs[p].writers = {}

(* ------------------- functions applied on their own ------------------ *)

\* the answers of script the call read
Consumed(script, res) == SubSeq(script, 1, res.requests)

\* fetch_pins_page called with the server playing script
CallFetch ==
    /\ probe = NoProbe
    /\ \E script \in Scripts :
          probe' = [fn |-> "fetch_pins_page", script |-> script,
                    res |-> fetch_pins_page(script)]
    /\ UNCHANGED <<mpc, mainVars, poolVars>>

\* stream_download called with the server playing script (the write succeeds)
CallDownload ==
    /\ probe = NoProbe
    /\ \E script \in Scripts :
          probe' = [fn |-> "stream_download", script |-> script,
                    res |-> stream_download(script)]
    /\ UNCHANGED <<mpc, mainVars, poolVars>>

NextRetry == CallFetch \/ CallDownload

\* no run in progress: only probe changes
InitIdle ==
    /\ mpc = "idle"
    /\ pins = <<>>
    /\ concurrency = 1
    /\ bookmark = "NONE"
    /\ total_pages = 0
    /\ served = <<>>
    /\ sent = <<>>
    /\ PoolInit
    /\ fs = <<>>
    /\ outcome = <<>>
    /\ probe = NoProbe

SpecRetry == InitIdle /\ [][NextRetry]_vars

IsRetryProbe == probe.fn \in {"fetch_pins_page", "stream_download"}

IsTransient(a) == a.kind = "status" /\ a.code \in {429, 500, 502, 503, 504}

\* the position of the first answer of script that is no transient status, or
\* Len(script) + 1
RECURSIVE FirstFinal(_, _)
FirstFinal(script, k) ==
    IF k > Len(script) \/ ~IsTransient(script[k]) THEN k ELSE FirstFinal(script, k + 1)

\* C6: for both retry loops and every script of statuses: the call succeeds iff
\* a 200 arrives after at most 5 statuses, all transient; it sleeps once per
\* transient answer it retries, at most 5 times, and sends at most 6 requests;
\* it fails on the 6th consecutive transient status, and at once, without a
\* further sleep, on any other status that is not 200.
C6_RetryOutcome ==
    IsRetryProbe =>
        LET s == probe.script
            r == probe.res
            k == FirstFinal(s, 1)
        IN  (k > 6 \/ s[k].kind = "status") =>
              /\ r.outcome = "return" <=> (k <= 6 /\ s[k].code = 200)
              /\ r.outcome \in {"return", "raise"}
              /\ Len(r.sleeps) <= 5 /\ r.requests <= 6
              /\ Len(r.sleeps) = r.requests - 1
              /\ k > 6 => r.outcome = "raise" /\ r.requests = 6 /\ Len(r.sleeps) = 5
              /\ k <= 6 => r.requests = k
              /\ \A i \in 1..Len(r.sleeps) : r.sleeps[i] = 2 ^ i

\* C6 witness: 429, 503, 429 then 200 returned after exactly 3 sleeps by
\* stream_download, as in the scripted example
C6_Witness ==
    /\ probe.fn = "stream_download"
    /\ Consumed(probe.script, probe.res) = <<Status(429), Status(503), Status(429), Status(200)>>
    /\ probe.res.outcome = "return"
    /\ Len(probe.res.sleeps) = 3

\* C7: a request that times out is retried like a transient status: the call
\* does not fail on a timeout while fewer than 5 retries have been used.
C7_TimeoutRetried ==
    IsRetryProbe =>
        LET k == FirstFinal(probe.script, 1)
        IN  (k <= 5 /\ probe.script[k].kind = "timeout") => probe.res.requests > k

\* the pins every shape of media.images and of pin.images gives: each tier is
\* absent, an entry with a url, an entry with an empty url, or no dict
TierShapes == [{"orig", "xlarge", "large", "medium", "small"} -> {"absent", "url", "empty", "notdict"}]

TierEntry(t, shape) ==
    IF shape = "url" THEN Img(<<"/", t>>, {})
    ELSE IF shape = "empty" THEN [isdict |-> TRUE, url |-> NoUrl, width |-> {}]
    ELSE NoImg

TierMap(m, extra) ==
    [t \in {x \in DOMAIN m : m[x] # "absent"} \cup extra |->
        IF t \in DOMAIN m THEN TierEntry(t, m[t]) ELSE Img(<<"/", t>>, {})]

PickPins ==
    {[id |-> {<<"a">>}, title |-> <<>>, description |-> <<>>,
      media |-> Tiers(TierMap(m, extra)), images |-> fb] :
        m \in TierShapes,
        extra \in {{}, {"150x150"}},
        fb \in {NoImages, [kind |-> "dict", entries |-> <<Img(<<"/", "f">>, {800})>>]}}

\* pick_best_image(pin) called on its own
CallPick ==
    /\ probe = NoProbe
    /\ \E pin \in PickPins :
          probe' = [fn |-> "pick_best_image", pin |-> pin, res |-> pick_best_image(pin)]
    /\ UNCHANGED <<mpc, mainVars, poolVars>>

SpecPick == InitIdle /\ [][CallPick]_vars

\* the tiers of a pin's media.images that hold an entry with a non-empty url,
\* as positions in orig > xlarge > large > medium > small
GoodTiers(pin) ==
    LET prio == <<"orig", "xlarge", "large", "medium", "small">>
        map  == pin.media.images.map
    IN  {i \in 1..5 : /\ prio[i] \in DOMAIN map
                      /\ map[prio[i]].isdict
                      /\ map[prio[i]].url # NoUrl}

\* C10: when some tier of media.images has a non-empty url, pick_best_image
\* returns the entry of the first such tier in the order orig, xlarge, large,
\* medium, small: no lower tier, no pin.images entry, no tier without a url.
C10_HighestTier ==
    probe.fn = "pick_best_image" =>
        LET prio == <<"orig", "xlarge", "large", "medium", "small">>
            good == GoodTiers(probe.pin)
        IN  good # {} =>
              LET best == CHOOSE i \in good : \A j \in good : i <= j
              IN  /\ probe.res.kind = "img"
                  /\ probe.res.img = probe.pin.media.images.map[prio[best]]
                  /\ probe.res.img.url.path = <<"/", prio[best]>>

\* C10 witness: orig has an empty url, xlarge is absent, large and medium have
\* urls, pin.images has an entry: the large entry is returned
C10_Witness ==
    /\ probe.fn = "pick_best_image"
    /\ GoodTiers(probe.pin) = {3, 4}
    /\ "orig" \in DOMAIN probe.pin.media.images.map
    /\ probe.pin.images.entries # <<>>
    /\ probe.res.img.url.path = <<"/", "large">>

\* the items of the pages, one after the other
RECURSIVE Concat(_)
Concat(pages) == IF pages = <<>> THEN <<>> ELSE Head(pages).items \o Concat(Tail(pages))

\* a page that ends the walk: no bookmark, an empty one, or no items
Terminating(pg) == pg.bookmark \in {"NONE", ""} \/ pg.items = <<>>

\* C8: the pins collected are the items of the pages served, in page order;
\* the first request carries no bookmark and request k+1 the bookmark of page
\* k; no page but the last one served is a terminating page, and once a
\* terminating page is served the walk is over.
C8_Pagination ==
    /\ pins = Concat(served)
    /\ Len(sent) \in {Len(served), Len(served) + 1}
    /\ \A k \in 1..Len(sent) :
          sent[k] = IF k = 1 THEN "ABSENT" ELSE served[k - 1].bookmark
    /\ \A k \in 1..(Len(served) - 1) : ~Terminating(served[k])
    /\ Len(sent) > Len(served) => mpc = "aborted"
    /\ (served # <<>> /\ Terminating(served[Len(served)])) <=> mpc \notin {"paginate", "aborted"}
    /\ total_pages = Len(served)

\* C8 witness: a second page with a bookmark and no items ended the walk, and
\* the pins are those of the first page
C8_Witness ==
    /\ mpc = "run_start"
    /\ Len(served) = 2
    /\ served[2].bookmark = "b2" /\ served[2].items = <<>>
    /\ served[1].bookmark = "b1"
    /\ sent = <<"ABSENT", "b1">>
    /\ pins = served[1].items

\* no worker started, nothing enqueued, no file written
PoolUntouched ==
    /\ threads = 0
    /\ \A w \in Workers : wpc[w] = "unstarted"
    /\ q = <<>> /\ unfinished = 0 /\ mi = 0
    /\ \A p \in DOMAIN fs : fs[p].writers = {}

\* C9: until the last page request has returned the pool is untouched; a
\* page request that fails for good ends the run with the pool untouched; and
\* workers only ever run on the list of a pagination that was completed.
C9_DownloadAfterPagination ==
    /\ mpc \in {"paginate", "aborted", "nothing"} => PoolUntouched
    /\ ~PoolUntouched =>
          /\ served # <<>> /\ Terminating(served[Len(served)])
          /\ Len(sent) = Len(served)
          /\ pins = Concat(served)

\* C9 witness: a page request failed after an earlier page had returned items
C9_Witness ==
    /\ mpc = "aborted"
    /\ pins # <<>>
    /\ Len(sent) = 2
    /\ PoolUntouched


(* ----------------------- pick_best_image, fallback ------------------- *)

\* what an entry of pin.images can be: a dict with or without a url, its width
\* absent, 100 or 800, or a value that is no dict
EntryShapes ==
    {[dict |-> TRUE, w |-> w, url |-> u] : w \in {{}, {100}, {800}}, u \in BOOLEAN}
        \cup {[dict |-> FALSE, w |-> {}, url |-> FALSE]}

\* the i-th entry of pin.images in the given shape, its url naming its position
Entry(i, sh) ==
    IF sh.dict
    THEN [isdict |-> TRUE,
          url |-> IF sh.url THEN [host |-> <<"h">>, path |-> <<"/">> \o Digits(i)] ELSE NoUrl,
          width |-> sh.w]
    ELSE NoImg

\* the shapes of pin.media that hold no tier with a url: no media key, a media
\* that is no dict, a media without images, images with an orig entry without
\* url and a small entry that is no dict, and images that is null
BareMedia ==
    { NoMedia,
      [kind |-> "notdict", images |-> [kind |-> "absent", map |-> <<>>]],
      [kind |-> "dict", images |-> [kind |-> "absent", map |-> <<>>]],
      Tiers([t \in {"orig", "small"} |->
                IF t = "orig" THEN [isdict |-> TRUE, url |-> NoUrl, width |-> {800}] ELSE NoImg]),
      [kind |-> "dict", images |-> [kind |-> "notdict", map |-> <<>>]] }

\* the shapes of pin.images: no images key, a value that is no dict, a dict
FallbackImages ==
    {NoImages, [kind |-> "notdict", entries |-> <<>>]}
        \cup {[kind |-> "dict", entries |-> [i \in 1..Len(shapes) |-> Entry(i, shapes[i])]] :
                 shapes \in SeqsUpTo(EntryShapes, MaxEntries)}

FallbackPins ==
    {[id |-> {<<"a">>}, title |-> <<>>, description |-> <<>>, media |-> m, images |-> fb] :
        m \in BareMedia, fb \in FallbackImages}

\* pick_best_image(pin) called on a pin without a usable tier
CallPickFallback ==
    /\ probe = NoProbe
    /\ \E pin \in FallbackPins :
          probe' = [fn |-> "pick_best_image", pin |-> pin, res |-> pick_best_image(pin)]
    /\ UNCHANGED <<mpc, mainVars, poolVars>>

SpecFallback == InitIdle /\ [][CallPickFallback]_vars

\* the positions of the pin.images entries that are dicts with a non-empty url
Candidates(pin) ==
    IF pin.images.kind # "dict" THEN {}
    ELSE {i \in 1..Len(pin.images.entries) :
             pin.images.entries[i].isdict /\ pin.images.entries[i].url # NoUrl}

\* the declared width of the i-th entry, 0 when there is none
DeclaredWidth(pin, i) ==
    LET w == pin.images.entries[i].width
    IN  IF w = {} THEN 0 ELSE CHOOSE n \in w : TRUE

\* C11: for a pin without a usable tier, pick_best_image returns the first of
\* the pin.images entries of greatest width (an absent width is 0) among those
\* with a non-empty url, and None exactly when no entry has a url.
C11_FallbackMaxWidth ==
    (probe.fn = "pick_best_image" /\ GoodTiers(probe.pin) = {}) =>
        LET pin  == probe.pin
            cand == Candidates(pin)
        IN  IF cand = {}
            THEN probe.res.kind = "none"
            ELSE LET best == CHOOSE i \in cand : \A j \in cand :
                                 \/ DeclaredWidth(pin, i) > DeclaredWidth(pin, j)
                                 \/ DeclaredWidth(pin, i) = DeclaredWidth(pin, j) /\ i <= j
                 IN  /\ probe.res.kind = "img"
                     /\ probe.res.img = pin.images.entries[best]


(* -------------------------- sanitize_filename ------------------------ *)

\* the characters the names are made of: a letter, a space, an underscore, a
\* slash, a hyphen, a tab, and the control characters 0x01 and 0x1F
NameChars == {"a", " ", "_", "/", "-", "TAB", "SOH", "US"}

\* a run of letters two short of max_len, so that a tail reaches the cut
LongPrefix == [i \in 1..(DefaultMaxLen - 2) |-> "a"]

SanitizeInputs == {pre \o tail : pre \in {<<>>, LongPrefix}, tail \in SeqsUpTo(NameChars, MaxTail)}

\* sanitize_filename(name), and sanitize_filename of what it returned
CallSanitize ==
    /\ probe = NoProbe
    /\ \E name \in SanitizeInputs :
          LET res == sanitize_filename(name, DefaultMaxLen)
          IN  probe' = [fn |-> "sanitize_filename", name |-> name, res |-> res,
                        again |-> sanitize_filename(res, DefaultMaxLen)]
    /\ UNCHANGED <<mpc, mainVars, poolVars>>

SpecSanitize == InitIdle /\ [][CallSanitize]_vars

\* C12: sanitize_filename is idempotent: sanitizing the result of a call
\* returns that same result.
C12_SanitizeIdempotent == probe.fn = "sanitize_filename" => probe.again = probe.res

\* the characters disallowed on common filesystems
Disallowed == {"<", ">", ":", "QUOTE", "/", "BACKSLASH", "|", "?", "*"}

\* the control characters 0x00 to 0x1F that occur in names
ControlChars == {"NUL", "SOH", "TAB", "LF", "VT", "FF", "CR", "FS", "GS", "RS", "US"}

\* a name that holds nothing sanitize_filename is said to touch
CleanName(name) ==
    /\ name # <<>> /\ Len(name) <= 120
    /\ \A i \in 1..Len(name) : name[i] \notin Disallowed \cup ControlChars \cup {" "}
    /\ name[1] # "_" /\ name[Len(name)] # "_"

\* C13: the result holds no disallowed character, no control character and no
\* whitespace, is at most 120 characters long and neither starts nor ends with
\* an underscore; a name that holds none of these comes back unchanged.
C13_SanitizeResult ==
    probe.fn = "sanitize_filename" =>
        LET r == probe.res
        IN  /\ \A i \in 1..Len(r) : r[i] \notin Disallowed \cup ControlChars \cup {" "}
            /\ Len(r) <= 120
            /\ r # <<>> => r[1] # "_" /\ r[Len(r)] # "_"
            /\ CleanName(probe.name) => r = probe.name


(* ---------------------- jobs one after another ----------------------- *)

\* the pins of a run with one worker: two that download, one that is skipped
SeqPins == {PinA, PinB, PinC}

\* Downloader(out_dir, concurrency=1).run(pins): with one worker every job is
\* over before the next one resolves its path
InitSeq ==
    /\ mpc = "run_start"
    /\ pins \in SeqsUpTo(SeqPins, MaxSeq)
    /\ concurrency = 1
    /\ bookmark = "NONE"
    /\ total_pages = 0
    /\ served = <<>>
    /\ sent = <<>>
    /\ PoolInit
    /\ fs \in OldFiles
    /\ outcome = <<>>
    /\ probe = NoProbe

SpecSeq == InitSeq /\ [][NextRun]_vars

\* the base name and the extension job j computes
JobKey(j) ==
    LET r == pick_best_image(pins[j])
    IN  <<BaseOf(pins[j]), Ext(r.img.url)>>

\* the successful jobs up to j that computed the same base name and extension
SameNameUpTo(j) == {i \in 1..j : outcome[i] = "success" /\ JobKey(i) = JobKey(j)}

\* the files out_dir held before the run
Old == {p \in DOMAIN fs : fs[p].old}

\* base+ext for n = 0, base_n+ext for n >= 1
CandidateName(base, n, ext) == IF n = 0 THEN base \o ext ELSE base \o <<"_">> \o Digits(n) \o ext

\* the k-th of these names that no file held before the run
KthUnused(base, ext, k) ==
    LET free(n) == CandidateName(base, n, ext) \notin Old
        n == CHOOSE m \in 0..(MaxSeq + 1) :
                 free(m) /\ Cardinality({l \in 0..(m - 1) : free(l)}) = k - 1
    IN  CandidateName(base, n, ext)

\* C14: when no job fails, the k-th job of those that compute the same base
\* name and extension writes, alone and completely, the k-th name of base+ext,
\* base_1+ext, base_2+ext, ... that was unused before the run (base+ext and
\* base_(k-1)+ext when none was used), and no file that existed before is
\* written to.
C14_SequentialNames ==
    (\A j \in DOMAIN outcome : outcome[j] # "failed") =>
        /\ \A j \in DOMAIN outcome :
              outcome[j] = "success" =>
                  LET key == JobKey(j)
                      p   == KthUnused(key[1], key[2], Cardinality(SameNameUpTo(j)))
                  IN  p \in DOMAIN fs /\ fs[p].writers = {j} /\ fs[p].complete
        /\ \A p \in DOMAIN fs :
              /\ Cardinality(fs[p].writers) <= 1
              /\ fs[p].old => fs[p].writers = {} /\ fs[p].complete

\* three jobs of the same name succeeded in an empty directory and wrote
\* a.p, a_1.p and a_2.p
C14_Witness ==
    /\ Len(pins) >= 3
    /\ \A j \in 1..3 : j \in DOMAIN outcome /\ outcome[j] = "success" /\ pins[j] = PinA
    /\ Old = {}
    /\ fs[<<"a", "_", "2", ".", "p">>].writers = {3}

\* the same with a.p in the directory before the run: a_1.p and a_2.p
C14_WitnessOld ==
    /\ Len(pins) >= 2
    /\ \A j \in 1..2 : j \in DOMAIN outcome /\ outcome[j] = "success" /\ pins[j] = PinA
    /\ Old # {}
    /\ fs[<<"a", "_", "2", ".", "p">>].writers = {2}


(* --------------------------- whole runs ------------------------------ *)

\* items A, B and C, each at most once, in every order
EndPins == {PinA, PinB, PinC}

Distinct(s) == \A i, j \in 1..Len(s) : i # j => s[i] # s[j]

\* Downloader(out_dir, concurrency).run(pins) in an empty directory
InitEnd ==
    /\ mpc = "run_start"
    /\ pins \in {s \in SeqsUpTo(EndPins, Cardinality(EndPins)) : Distinct(s)}
    /\ concurrency \in 1..MaxConc
    /\ bookmark = "NONE"
    /\ total_pages = 0
    /\ served = <<>>
    /\ sent = <<>>
    /\ PoolInit
    /\ fs = <<>>
    /\ outcome = <<>>
    /\ probe = NoProbe

SpecEnd == InitEnd /\ [][NextRun]_vars

\* run waits in q.join() or in t.join() and every worker that still lives
\* waits in q.get() on the empty queue: no step is left
Stuck ==
    /\ \/ mpc = "q_join" /\ unfinished # 0
       \/ mpc = "t_join" /\ \E w \in 1..threads : wpc[w] \notin {"stopped", "crashed"}
    /\ \A w \in Workers : wpc[w] \in {"stopped", "crashed"} \/ (wpc[w] = "get" /\ q = <<>>)

\* run has returned, or nothing in the program can take a step any more
RunOver == mpc = "returned" \/ Stuck

\* the files job j opened for writing
FilesOf(j) == {p \in DOMAIN fs : j \in fs[p].writers}

\* C15: once a run in which no download failed is over, every pin with an
\* asset has exactly one file, complete and holding the body of the url that
\* pick_best_image chose, every pin without one has no file and is a skip, and
\* each pin was counted once.
C15_EndToEnd ==
    (RunOver /\ \A j \in DOMAIN outcome : outcome[j] # "failed") =>
        /\ \A j \in Jobs :
              LET r == pick_best_image(pins[j])
              IN  IF r.kind = "img" /\ UrlTruthy(r.img.url)
                  THEN /\ Cardinality(FilesOf(j)) = 1
                       /\ \A p \in FilesOf(j) :
                             fs[p].src = r.img.url /\ fs[p].complete /\ fs[p].writers = {j}
                  ELSE FilesOf(j) = {} /\ outcome[j] = "skip"
        /\ bar.n = Len(pins)


\* C16: after a failed job its destination either does not exist or holds a
\* complete asset: no file that a failed job opened is left truncated.
C16_NoPartialFile ==
    \A j \in DOMAIN outcome :
        outcome[j] = "failed" => \A p \in FilesOf(j) : fs[p].complete


(* ------------------------- several workers --------------------------- *)

\* Downloader(out_dir, concurrency).run(pins) with concurrency >= 2
InitPool ==
    /\ mpc = "run_start"
    /\ concurrency \in 2..PoolSize
    /\ pins \in SeqsUpTo(RunPins, PoolSize - concurrency)
    /\ bookmark = "NONE"
    /\ total_pages = 0
    /\ served = <<>>
    /\ sent = <<>>
    /\ PoolInit
    /\ fs = <<>>
    /\ outcome = <<>>
    /\ probe = NoProbe

SpecPool == InitPool /\ [][NextRun]_vars

RECURSIVE GotUpTo(_)
\* how many times q.get() has returned one of the items 0..n
GotUpTo(n) == IF n \notin DOMAIN got THEN 0 ELSE got[n] + GotUpTo(n - 1)

\* the workers that hold a real job and have not finished with it
Holding(j) ==
    {w \in Workers : wjob[w] = j /\ wpc[w] \notin {"unstarted", "get", "stopped", "crashed"}}

\* C17: every real job is returned by q.get() at most once and is held by at
\* most one worker; a job that was returned is no longer on the queue; no more
\* sentinels are returned than were put; and every item put is either still
\* on the queue or was returned exactly once.
C17_AtMostOneConsumer ==
    /\ \A j \in DOMAIN got : j # 0 => got[j] <= 1 /\ Cardinality(Holding(j)) <= got[j]
    /\ \A i \in 1..Len(q) : q[i] # 0 => got[q[i]] = 0
    /\ \A i, k \in 1..Len(q) : (i # k /\ q[i] # 0) => q[i] # q[k]
    /\ 0 \in DOMAIN got =>
          got[0] <= (IF mi > Len(pins) THEN mi - Len(pins) ELSE 0)
    /\ Len(q) + GotUpTo(Len(pins)) = mi

\* two workers each hold one of two jobs, both taken from the queue once, and
\* are downloading at the same time
C17_Witness ==
    /\ concurrency >= 2
    /\ Len(pins) >= 2
    /\ wjob[1] = 2 /\ wjob[2] = 1
    /\ wpc[1] = "download" /\ wpc[2] = "download"
    /\ got[1] = 1 /\ got[2] = 1


(* ----------------------- shutdown and accounting --------------------- *)

\* run has started every worker
AllSpawned == mpc \in {"put", "sentinels", "q_join", "t_join", "returned"}

\* the sentinels run has put so far
SentinelsPut == IF mi > Len(pins) THEN mi - Len(pins) ELSE 0

\* the workers whose thread has ended
Ended == {w \in Workers : wpc[w] \in {"stopped", "crashed"}}

\* run starts exactly concurrency workers and puts exactly concurrency
\* sentinels, all of them behind every real job
C18_RunSide ==
    /\ threads <= concurrency
    /\ AllSpawned => threads = concurrency
    /\ SentinelsPut <= concurrency
    /\ mpc \in {"q_join", "t_join", "returned"} => SentinelsPut = concurrency
    /\ \A i, k \in 1..Len(q) : (i < k /\ q[i] = 0) => q[k] = 0

\* C18: run starts exactly concurrency workers and puts exactly concurrency
\* sentinels behind all real jobs; a worker ends only by taking a sentinel,
\* takes exactly one, and not before every real job was taken; when run
\* returns the queue is empty.
C18_SentinelShutdown ==
    /\ C18_RunSide
    /\ \A w \in Ended :
          /\ wpc[w] = "stopped" /\ wjob[w] = 0
          /\ \A j \in Jobs : got[j] = 1
    /\ 0 \in DOMAIN got =>
          got[0] = Cardinality({w \in Workers : wpc[w] = "sentinel_done"} \cup Ended)
    /\ mpc = "returned" => q = <<>> /\ got[0] = concurrency

\* the workers that hold an item for which they have not called task_done yet
Pending ==
    {w \in Workers :
        \/ wpc[w] \in {"sentinel_done", "skip_tick", "skip_done", "exists", "download", "write"}
        \/ wpc[w] \in {"finally_tick", "finally_done"} /\ outcome[wjob[w]] # "skip"}

\* C19: unfinished_tasks is the number of items on the queue plus the items
\* taken for which task_done is still to come, no call of task_done raises,
\* and q.join() has not returned while a real job is queued or in flight.
C19_QueueAccounting ==
    /\ unfinished = Len(q) + Cardinality(Pending)
    /\ \A w \in Workers :
          wpc[w] \in {"sentinel_done", "skip_done", "finally_done"} => ~TaskDoneRaises
    /\ mpc \in {"t_join", "returned"} =>
          /\ \A i \in 1..Len(q) : q[i] = 0
          /\ \A w \in Pending : wjob[w] = 0

\* worker w is inside stream_download and nobody else can take a step
OthersAtRest(w) ==
    /\ wpc[w] = "download"
    /\ \/ mpc = "q_join" /\ unfinished # 0
       \/ mpc = "t_join"
    /\ \A v \in Workers \ {w} :
          wpc[v] \in {"stopped", "crashed"} \/ (wpc[v] = "get" /\ q = <<>>)

\* C20: with two or more workers, when one worker stays inside a download and
\* everything else has run as far as it can, every other real job has reached
\* a terminal outcome.
C20_BlockedWorker ==
    \A w \in Workers :
        (concurrency >= 2 /\ OthersAtRest(w)) =>
            \A j \in Jobs \ {wjob[w]} : outcome[j] # "none"


====
